---- MODULE Spec2Model ----
(***************************************************************************)
(* FrontendX Performance-Pal backend: the report-summarisation pipeline    *)
(* (app/services/processing_service.py), the conversation assembly         *)
(* (app/services/llm_service.py) and the request handlers over the single  *)
(* process-wide AppState (app/main.py).                                     *)
(*                                                                         *)
(* Representation.  A Python dict is a TLA+ function over its keys (the    *)
(* empty dict and the empty list are both << >>); the ordered dict of      *)
(* audits is a sequence of [id, audit] entries in insertion order.  A      *)
(* Python exception is a value of the field exc.  Numbers: a category      *)
(* score is held in hundredths (0.87 is 87), a duration in tenths of a     *)
(* millisecond (234.4 ms is 2344), a transfer size in bytes.               *)
(***************************************************************************)
EXTENDS Integers, Sequences, FiniteSets, TLC

\* ------------------------------------------------------------------ Python
\* The value None where a string is expected, and what an f-string makes of it.
None == "<None>"

Str(v) == IF v = None THEN "None" ELSE v

Has(d, k) == k \in DOMAIN d

\* dict.get(k, default)
Get(d, k, default) == IF Has(d, k) THEN d[k] ELSE default

\* dict.get(k) where a string (or None) comes back
GetStr(d, k) == Get(d, k, None)

\* bool(x) of a dict or a list
Truthy(x) == DOMAIN x # {}

\* d[k] = v
Put(d, k, v) == [x \in DOMAIN d \cup {k} |-> IF x = k THEN v ELSE d[x]]

\* isinstance(data, dict): a non-object JSON value carries the key "__list__".
IsDict(data) == ~ Has(data, "__list__")

\* audits.get(id, default) on the ordered dict of audits
AuditsGet(audits, id, default) ==
    IF \E i \in DOMAIN audits : audits[i].id = id
    THEN audits[CHOOSE i \in DOMAIN audits : audits[i].id = id].audit
    ELSE default

\* f"{x:.0f}" of a number held in tenths: round half to even.
Fmt0fTenths(x) ==
    LET q == x \div 10
        r == x % 10
    IN  ToString(IF r > 5 \/ (r = 5 /\ q % 2 = 1) THEN q + 1 ELSE q)

\* f"{n / 1024:.0f}" of a whole number of bytes: round half to even.
Fmt0fKB(n) ==
    LET q == n \div 1024
        r == n % 1024
    IN  ToString(IF r > 512 \/ (r = 512 /\ q % 2 = 1) THEN q + 1 ELSE q)

\* "\n".join(lines)
RECURSIVE Join(_)
Join(lines) ==
    IF Len(lines) = 0 THEN ""
    ELSE IF Len(lines) = 1 THEN lines[1]
    ELSE lines[1] \o "\n" \o Join(Tail(lines))

\* A returned value, and a raised exception.
Ok(v) == [exc |-> "none", val |-> v]

Raise(e) == [exc |-> e, val |-> << >>]

\* -------------------------------------------------- processing_service.py
metrics_to_extract ==
    << "first-contentful-paint", "speed-index", "largest-contentful-paint",
       "interactive", "total-blocking-time", "cumulative-layout-shift" >>

\* metric_id.replace('-', ' ').title(), tabulated for the ids it is applied to
Humanize(metric_id) ==
    CASE metric_id = "first-contentful-paint" -> "First Contentful Paint"
      [] metric_id = "speed-index" -> "Speed Index"
      [] metric_id = "largest-contentful-paint" -> "Largest Contentful Paint"
      [] metric_id = "interactive" -> "Interactive"
      [] metric_id = "total-blocking-time" -> "Total Blocking Time"
      [] metric_id = "cumulative-layout-shift" -> "Cumulative Layout Shift"

extract_key_metrics(data) ==
    LET audits == Get(Get(data, "lighthouseResult", << >>), "audits", << >>)
    IN  [i \in DOMAIN metrics_to_extract |->
            LET metric_id == metrics_to_extract[i]
                metric_data == AuditsGet(audits, metric_id, << >>)
            IN  [title |-> Get(metric_data, "title", Humanize(metric_id)),
                 value |-> Get(metric_data, "displayValue", "N/A")]]

\* The list as Python reads it: "speed-index" "interactive" are adjacent string
\* literals with no comma between them, which the language concatenates.
metric_ids ==
    << "largest-contentful-paint",
       "total-blocking-time",
       "cumulative-layout-shift",
       "first-contentful-paint",
       "speed-index" \o "interactive" >>

\* 2. Core Web Vitals and Key Metrics
RECURSIVE CoreMetrics(_, _)
CoreMetrics(audits, ids) ==
    IF Len(ids) = 0 THEN << >>
    ELSE LET metric_audit == AuditsGet(audits, Head(ids), << >>)
             rest == CoreMetrics(audits, Tail(ids))
         IN  IF Truthy(metric_audit)
             THEN << [title |-> GetStr(metric_audit, "title"),
                      value |-> GetStr(metric_audit, "displayValue")] >> \o rest
             ELSE rest

\* One detail item of an opportunity: the line it adds (none for the other audits).
OpportunityItem(audit_id, item) ==
    IF audit_id = "bootup-time"
    THEN IF Has(item, "total")
         THEN Ok(<< "  - Script: " \o Str(GetStr(item, "url")) \o ", CPU Time: "
                    \o Fmt0fTenths(item.total) \o "ms" >>)
         ELSE Raise("TypeError")
    ELSE IF audit_id = "image-delivery-insight" /\ Truthy(Get(item, "subItems", << >>))
    THEN IF ~ Has(item.subItems, "items") THEN Raise("KeyError")
         ELSE IF Len(item.subItems.items) = 0 THEN Raise("IndexError")
         ELSE Ok(<< "  - Image: " \o Str(GetStr(item, "url")) \o ", Reason: "
                    \o Get(item.subItems.items[1], "reason", "Optimization needed") >>)
    ELSE Ok(<< >>)

RECURSIVE OpportunityItems(_, _)
OpportunityItems(audit_id, items) ==
    IF Len(items) = 0 THEN Ok(<< >>)
    ELSE LET first == OpportunityItem(audit_id, Head(items))
         IN  IF first.exc # "none" THEN first
             ELSE LET rest == OpportunityItems(audit_id, Tail(items))
                  IN  IF rest.exc # "none" THEN rest
                      ELSE Ok(first.val \o rest.val)

\* 3. Actionable Opportunities, in the audits' own order
RECURSIVE Opportunities(_)
Opportunities(audits) ==
    IF Len(audits) = 0 THEN Ok(<< >>)
    ELSE LET audit_id == Head(audits).id
             audit == Head(audits).audit
             details == Get(audit, "details", << >>)
             qualifies ==
                 /\ Has(details, "type")
                 /\ details.type = "opportunity"
                 /\ \/ Get(details, "overallSavingsMs", 0) > 0
                    \/ Truthy(Get(details, "items", << >>))
             lines == IF qualifies
                      THEN OpportunityItems(audit_id, Get(details, "items", << >>))
                      ELSE Ok(<< >>)
         IN  IF lines.exc # "none" THEN lines
             ELSE LET rest == Opportunities(Tail(audits))
                  IN  IF rest.exc # "none" THEN rest
                      ELSE IF qualifies
                      THEN Ok(<< [title |-> GetStr(audit, "title"),
                                  description |-> GetStr(audit, "description"),
                                  savings |-> Get(audit, "displayValue", ""),
                                  items |-> lines.val] >> \o rest.val)
                      ELSE rest

\* 4. Key Diagnostics: critical request chains
CriticalRequestChains(audits, diagnostics) ==
    LET crc_audit == AuditsGet(audits, "critical-request-chains", << >>)
        longest_chain == Get(Get(crc_audit, "details", << >>), "longestChain", << >>)
    IN  IF Truthy(crc_audit) /\ Truthy(Get(crc_audit, "details", << >>))
           /\ Truthy(longest_chain)
        THEN IF Has(longest_chain, "duration")
             THEN Ok(Put(diagnostics, "critical_request_chains",
                         "Longest chain: "
                         \o (IF Has(longest_chain, "length")
                             THEN ToString(longest_chain.length) ELSE "None")
                         \o " requests, taking "
                         \o Fmt0fTenths(longest_chain.duration) \o "ms."))
             ELSE Raise("TypeError")
        ELSE Ok(diagnostics)

RECURSIVE ResourceLines(_)
ResourceLines(items) ==
    IF Len(items) = 0 THEN << >>
    ELSE LET item == Head(items)
         IN  (IF Get(item, "resourceType", None)
                   \in {"total", "script", "image", "font", "third-party"}
              THEN << "  - " \o Str(GetStr(item, "label")) \o ": "
                      \o (IF Has(item, "requestCount")
                          THEN ToString(item.requestCount) ELSE "None")
                      \o " requests, " \o Fmt0fKB(Get(item, "transferSize", 0))
                      \o " KB" >>
              ELSE << >>) \o ResourceLines(Tail(items))

\* 4. Key Diagnostics: resource summary
ResourceSummary(audits, diagnostics) ==
    LET rs_audit == AuditsGet(audits, "resource-summary", << >>)
        items == Get(Get(rs_audit, "details", << >>), "items", << >>)
    IN  IF Truthy(rs_audit) /\ Truthy(items)
        THEN Put(diagnostics, "resource_summary", Join(ResourceLines(items)))
        ELSE diagnostics

Summary_score_or_zero(lighthouse_result) ==
    [performance_score |->
        Get(Get(Get(lighthouse_result, "categories", << >>), "performance", << >>),
            "score", 0)]

\* 1. Overall Performance Score
Summary(lighthouse_result) ==
    LET performance_category ==
            Get(Get(lighthouse_result, "categories", << >>), "performance", << >>)
    IN  IF Has(performance_category, "score")
        THEN [performance_score |-> performance_category.score]
        ELSE << >>

extract_info_for_llm(data) ==
    IF ~ IsDict(data) THEN Raise("TypeError")
    ELSE LET lighthouse_result == Get(data, "lighthouseResult", << >>)
             audits == Get(lighthouse_result, "audits", << >>)
         IN  IF ~ Truthy(lighthouse_result) THEN Ok(<< >>)
             ELSE LET opps == Opportunities(audits)
                      crc == CriticalRequestChains(audits, << >>)
                  IN  IF opps.exc # "none" THEN opps
                      ELSE IF crc.exc # "none" THEN crc
                      ELSE Ok([summary |-> Summary(lighthouse_result),
                               metrics |-> CoreMetrics(audits, metric_ids),
                               opportunities |-> opps.val,
                               diagnostics |-> ResourceSummary(audits, crc.val)])

NoData == "No performance data could be extracted."

Header(url) == "--- Performance Summary Report for URL: " \o url \o " ---"

RECURSIVE MetricLines(_)
MetricLines(metrics) ==
    IF Len(metrics) = 0 THEN << >>
    ELSE << "- " \o Str(Head(metrics).title) \o ": " \o Str(Head(metrics).value) >>
         \o MetricLines(Tail(metrics))

RECURSIVE OpportunityLines(_)
OpportunityLines(opportunities) ==
    IF Len(opportunities) = 0 THEN << >>
    ELSE LET opp == Head(opportunities)
         IN  << "\n- " \o Str(opp.title) \o " ("
                \o Get(opp, "savings", "Action required") \o ")" >>
             \o Get(opp, "items", << >>) \o OpportunityLines(Tail(opportunities))

\* The lines format_for_llm joins, for a digest that is not empty.
prompt_lines(extracted_data, url) ==
    LET score == Get(extracted_data.summary, "performance_score", -1)
        opportunities == Get(extracted_data, "opportunities", << >>)
        diagnostics == Get(extracted_data, "diagnostics", << >>)
    IN  << Header(url) >>
        \o (IF Has(extracted_data.summary, "performance_score")
            THEN << "Overall Score: " \o ToString(score) \o "/100" >> ELSE << >>)
        \o << "\n--- Core Metrics ---" >>
        \o MetricLines(Get(extracted_data, "metrics", << >>))
        \o << "\n--- Top Opportunities for Improvement ---" >>
        \o (IF ~ Truthy(opportunities)
            THEN << "No significant opportunities were identified." >>
            ELSE OpportunityLines(opportunities))
        \o << "\n--- Key Diagnostics ---" >>
        \o (IF ~ Truthy(diagnostics)
            THEN << "No key diagnostics available." >>
            ELSE (IF Has(diagnostics, "critical_request_chains")
                  THEN << "- Critical Request Chains: "
                          \o diagnostics.critical_request_chains >>
                  ELSE << >>)
                 \o (IF Has(diagnostics, "resource_summary")
                     THEN << "- Resource Breakdown:\n" \o diagnostics.resource_summary >>
                     ELSE << >>))

format_for_llm(extracted_data, url) ==
    IF ~ Truthy(extracted_data) THEN NoData
    ELSE Join(prompt_lines(extracted_data, url))

\* A Python value that is not a dict carries its type under a reserved key.
NoneDict == [__none__ |-> TRUE]

\* `not x` for an Optional[Dict] and for an Optional[str]
NotDict(x) == Has(x, "__none__") \/ ~ Truthy(x)

NotStr_empty_only(s) == s = ""

NotStr(s) == s = None \/ s = ""

\* ---------------------------------------------------- pagespeed_service.py
\* What the Performance Report Provider may answer: a bad status, a transport
\* failure or timeout, or a JSON body.
StatusError == [kind |-> "HTTPStatusError", status |-> 429]

RequestError == [kind |-> "RequestError"]

Json(data) == [kind |-> "json", data |-> data]

HTTPException(status_code) == [exc |-> "HTTPException", val |-> status_code]

get_pagespeed_insights(answer) ==
    IF answer.kind = "HTTPStatusError" THEN HTTPException(answer.status)
    ELSE IF answer.kind = "RequestError" THEN HTTPException(500)
    ELSE IF Has(answer.data, "error") THEN HTTPException(400)
    ELSE IF ~ Has(answer.data, "lighthouseResult") THEN HTTPException(500)
    ELSE Ok(answer.data)

\* ----------------------------------------------------------- llm_service.py
\* The Language Model Provider is a black box; its answer is held as a function
\* of the report summary it was given, so that the summary behind an answer shows.
LLMReply(report_summary) == "overview of <" \o report_summary \o ">"

RECURSIVE langchain_history_users(_)
langchain_history_users(history) ==
    IF Len(history) = 0 THEN << >>
    ELSE (IF Head(history).role = "user"
          THEN << [type |-> "human", content |-> Head(history).content] >>
          ELSE << >>) \o langchain_history_users(Tail(history))

\* get_llm_stream, up to the call of chain.astream: Pydantic models to LangChain
\* messages (HumanMessage is "human", AIMessage is "ai").
RECURSIVE langchain_history(_)
langchain_history(history) ==
    IF Len(history) = 0 THEN << >>
    ELSE LET msg == Head(history)
         IN  (IF msg.role = "user" THEN << [type |-> "human", content |-> msg.content] >>
              ELSE IF msg.role = "assistant"
              THEN << [type |-> "ai", content |-> msg.content] >>
              ELSE << >>) \o langchain_history(Tail(history))

yield_chunk_nonempty(out, chunk) == IF chunk = "" THEN out ELSE Append(out, chunk)

\* get_llm_stream's loop body: `yield chunk`
yield_chunk(out, chunk) == Append(out, chunk)

\* ------------------------------------------------------------------ bounds
NumAnalyze == 2
MaxHistory == 3
MaxChunks == 2
MaxAudits == 2

AReq == 1 .. NumAnalyze

\* ------------------------------------------------------------------ inputs
\* Audits a report may carry, complete ones and ones with fields missing.
AuditPool ==
    << [id |-> "speed-index",
        audit |-> [title |-> "Speed Index", displayValue |-> "3.1 s"]],
       [id |-> "largest-contentful-paint",
        audit |-> [displayValue |-> "2.5 s"]],
       [id |-> "first-contentful-paint",
        audit |-> [title |-> "First Contentful Paint", displayValue |-> "1.2 s"]],
       [id |-> "interactive",
        audit |-> [title |-> "Time to Interactive", displayValue |-> "4.0 s"]],
       [id |-> "total-blocking-time", audit |-> << >>],
       [id |-> "bootup-time",
        audit |-> [title |-> "Reduce JavaScript execution time",
                   displayValue |-> "0.5 s",
                   details |-> [type |-> "opportunity", overallSavingsMs |-> 500,
                                items |-> << [url |-> "a.js", total |-> 2344] >>]]],
       [id |-> "bootup-time",
        audit |-> [title |-> "Reduce JavaScript execution time",
                   details |-> [type |-> "opportunity", overallSavingsMs |-> 500,
                                items |-> << [url |-> "a.js"] >>]]],
       [id |-> "bootup-time",
        audit |-> [title |-> "JavaScript execution time",
                   details |-> [type |-> "table",
                                items |-> << [url |-> "a.js"] >>]]],
       [id |-> "image-delivery-insight",
        audit |-> [title |-> "Improve image delivery",
                   details |-> [type |-> "opportunity",
                                items |-> << [url |-> "a.png",
                                              subItems |-> [items |-> << [reason |-> "Use a modern format"] >>]],
                                             [url |-> "b.png",
                                              subItems |-> [items |-> << [url |-> "b.png"] >>]],
                                             [url |-> "c.png"] >>]]],
       [id |-> "image-delivery-insight",
        audit |-> [title |-> "Improve image delivery",
                   details |-> [type |-> "opportunity",
                                items |-> << [url |-> "a.png",
                                              subItems |-> [type |-> "subitems"]] >>]]],
       [id |-> "image-delivery-insight",
        audit |-> [title |-> "Improve image delivery",
                   details |-> [type |-> "opportunity",
                                items |-> << [url |-> "a.png",
                                              subItems |-> [items |-> << >>,
                                                            type |-> "subitems"]] >>]]],
       [id |-> "critical-request-chains",
        audit |-> [details |-> [longestChain |-> [length |-> 3, duration |-> 1005]]]],
       [id |-> "critical-request-chains",
        audit |-> [details |-> [longestChain |-> [length |-> 3]]]],
       [id |-> "resource-summary",
        audit |-> [details |-> [items |->
                     << [resourceType |-> "total", label |-> "Total",
                         requestCount |-> 10, transferSize |-> 2560],
                        [resourceType |-> "other", label |-> "Other",
                         requestCount |-> 1, transferSize |-> 100],
                        [resourceType |-> "script", label |-> "Script"] >>]]],
       [id |-> "uses-http2", audit |-> [title |-> "Use HTTP/2"]],
       [id |-> "unused-css-rules",
        audit |-> [title |-> "Reduce unused CSS",
                   details |-> [type |-> "opportunity", overallSavingsMs |-> 0,
                                items |-> << >>]]],
       [id |-> "render-blocking-resources",
        audit |-> [title |-> "Eliminate render-blocking resources",
                   details |-> [type |-> "opportunity", overallSavingsMs |-> 1,
                                items |-> << >>]]] >>

\* The category trees a report may carry (the key is absent for the first).
CategoryPool ==
    << << >>,
       [categories |-> << >>],
       [categories |-> [accessibility |-> [score |-> 90]]],
       [categories |-> [performance |-> [title |-> "Performance"]]],
       [categories |-> [performance |-> [score |-> 87]]] >>

\* The audits of the pool at the given places, in that order.
PickAudits(places) == [i \in DOMAIN places |-> AuditPool[places[i]]]

\* Places in the pool, ascending, of audits with different ids.
AuditPlaces ==
    { places \in UNION { [1 .. n -> DOMAIN AuditPool] : n \in 0 .. MaxAudits } :
        \A i, j \in DOMAIN places :
            i < j => /\ places[i] < places[j]
                     /\ AuditPool[places[i]].id # AuditPool[places[j]].id }

\* d1 | d2 for dicts with different keys
Merge(d1, d2) ==
    [k \in DOMAIN d1 \cup DOMAIN d2 |-> IF k \in DOMAIN d1 THEN d1[k] ELSE d2[k]]

MkReport(c, places) ==
    [lighthouseResult |-> Merge(CategoryPool[c], [audits |-> PickAudits(places)])]

\* The reports that are not built from the pools.
NonObject == [__list__ |-> << "lighthouseResult" >>]

OddReports ==
    << NonObject,
       << >>,
       [lighthouseResult |-> << >>],
       [lighthouseResult |-> [categories |-> [performance |-> [score |-> 87]]]],
       [lighthouseResult |-> [requestedUrl |-> "https://a.example"]] >>

Urls == {"https://a.example", "https://b.example"}

\* The complete report the service model holds for each url, and one whose
\* bootup-time item has no 'total'.
ReportOf(url) ==
    IF url = "https://a.example" THEN MkReport(5, << 3, 6 >>)
    ELSE MkReport(5, << 1, 14 >>)

ReportNoTotal == MkReport(5, << 3, 7 >>)

\* What the Performance Report Provider may answer for a url in the service model.
Answers(url) ==
    << StatusError,
       RequestError,
       Json([error |-> [message |-> "quota exceeded"]]),
       Json([kind |-> "pagespeedonline#result"]),
       Json(ReportOf(url)),
       Json(ReportNoTotal) >>

Roles == {"user", "assistant"}

Contents == {"hi", "why is it slow?"}

ChatMessage == [role : Roles, content : Contents]

\* Every ChatRequest.history of up to n messages
Histories(n) == UNION { [1 .. k -> ChatMessage] : k \in 0 .. n }

Chunks == {"", "Defer", " a.js"}

\* ------------------------------------------------------------------- state
VARIABLES
    full_report,   \* app_state.full_report
    llm_summary,   \* app_state.llm_summary
    a_pc,          \* analyze_website: where each request is
    a_url,         \*   request.url
    a_report,      \*   the local `report`
    a_arg,         \*   the report_summary get_initial_suggestion was called with
    a_resp,        \*   the response
    overlapped,    \* (history) an analysis began while another was under way
    stores,        \* (history) the requests that ran line 46, in order
    writes,        \* (history) the requests that ran line 48, in order
    c_pc,          \* chat_with_llm and its stream: where the request is
    c_hist,        \*   request.history
    c_stream,      \*   the arguments get_llm_stream was created with
    c_call,        \*   the input chain.astream was called with
    c_upstream,    \*   (history) the chunks the model has produced
    c_out,         \*   the chunks handed to the StreamingResponse
    c_resp,        \*   the response status
    c_seen,        \*   (history) Len(writes) when the handler ran
    d_resp,        \* download_full_report: the response
    p_pc,          \* the pipeline on its own: the function to apply next
    p_data,        \*   the report
    p_url,         \*   the url
    p_digest,      \*   extract_info_for_llm's result
    p_text,        \*   format_for_llm's result
    p_metrics      \*   extract_key_metrics' result

appVars == << full_report, llm_summary >>

aVars == << a_pc, a_url, a_report, a_arg, a_resp, overlapped, stores, writes >>

cVars == << c_pc, c_hist, c_stream, c_call, c_upstream, c_out, c_resp, c_seen >>

pVars == << p_pc, p_data, p_url, p_digest, p_text, p_metrics >>

vars == << appVars, aVars, cVars, d_resp, pVars >>

NoCall == << >>

NoResp == [status |-> 0]

InitApp ==
    /\ full_report = NoneDict
    /\ llm_summary = None

InitRequests ==
    /\ a_pc = [r \in AReq |-> "idle"]
    /\ a_url = [r \in AReq |-> ""]
    /\ a_report = [r \in AReq |-> NoneDict]
    /\ a_arg = [r \in AReq |-> None]
    /\ a_resp = [r \in AReq |-> NoResp]
    /\ overlapped = FALSE
    /\ stores = << >>
    /\ writes = << >>
    /\ c_pc = "idle"
    /\ c_hist = << >>
    /\ c_stream = NoCall
    /\ c_call = NoCall
    /\ c_upstream = << >>
    /\ c_out = << >>
    /\ c_resp = NoResp
    /\ c_seen = 0
    /\ d_resp = NoResp

InitPipelineOff ==
    /\ p_pc = "off"
    /\ p_data = << >>
    /\ p_url = ""
    /\ p_digest = Ok(<< >>)
    /\ p_text = ""
    /\ p_metrics = Ok(<< >>)

Init == InitApp /\ InitRequests /\ InitPipelineOff

\* ----------------------------------------------------------------- main.py
\* analyze_website up to its first suspension, the await inside
\* get_pagespeed_insights.  Requests are numbered in their order of arrival.
AnalyzeStart(r, url) ==
    /\ a_pc[r] = "idle"
    /\ \A q \in AReq : q < r => a_pc[q] # "idle"
    /\ a_pc' = [a_pc EXCEPT ![r] = "pagespeed"]
    /\ a_url' = [a_url EXCEPT ![r] = url]
    /\ overlapped' = (overlapped \/ \E q \in AReq : a_pc[q] \in {"pagespeed", "llm"})
    /\ UNCHANGED << appVars, a_report, a_arg, a_resp, stores, writes,
                    cVars, d_resp, pVars >>

\* Line 48: app_state.llm_summary = format_for_llm(...)
set_llm_summary_once(current, text) == IF current = None THEN text ELSE current

set_llm_summary(current, text) == text

\* The provider answers: get_pagespeed_insights returns or raises, and the
\* handler runs on without suspending (lines 46 to 50) until it awaits the
\* language model inside get_initial_suggestion.
PageSpeedReturn(r, answer) ==
    LET got == get_pagespeed_insights(answer)
        report == got.val
        extracted == extract_info_for_llm(report)
        text == format_for_llm(extracted.val, a_url[r])
        stored == set_llm_summary(llm_summary, text)
    IN  /\ a_pc[r] = "pagespeed"
        /\ IF got.exc # "none"
           THEN /\ a_pc' = [a_pc EXCEPT ![r] = "failed"]
                /\ a_resp' = [a_resp EXCEPT ![r] = [status |-> got.val]]
                /\ UNCHANGED << appVars, a_report, a_arg, stores, writes >>
           ELSE IF extracted.exc # "none"
           THEN /\ full_report' = report
                /\ a_report' = [a_report EXCEPT ![r] = report]
                /\ stores' = Append(stores, r)
                /\ a_pc' = [a_pc EXCEPT ![r] = "failed"]
                /\ a_resp' = [a_resp EXCEPT ![r] = [status |-> 500]]
                /\ UNCHANGED << llm_summary, a_arg, writes >>
           ELSE /\ full_report' = report
                /\ llm_summary' = stored
                /\ a_report' = [a_report EXCEPT ![r] = report]
                /\ stores' = Append(stores, r)
                /\ writes' = Append(writes, r)
                /\ a_arg' = [a_arg EXCEPT ![r] = stored]
                /\ a_pc' = [a_pc EXCEPT ![r] = "llm"]
                /\ UNCHANGED a_resp
        /\ UNCHANGED << a_url, overlapped, cVars, d_resp, pVars >>

\* get_initial_suggestion's report_summary: the argument, bound when line 50
\* called it, not app_state's field when the model answers.
report_summary_shared(r) == llm_summary

report_summary(r) == a_arg[r]

\* chain.ainvoke returns (lines 53 to 61 follow) or raises.
LLMReturn(r, ok) ==
    /\ a_pc[r] = "llm"
    /\ IF ok
       THEN LET lighthouse_result == Get(a_report[r], "lighthouseResult", << >>)
                performance_score ==
                    Get(Get(Get(lighthouse_result, "categories", << >>),
                            "performance", << >>), "score", 0)
            IN  /\ a_pc' = [a_pc EXCEPT ![r] = "done"]
                /\ a_resp' = [a_resp EXCEPT ![r] =
                       [status |-> 200,
                        performance_score |-> performance_score,
                        metrics |-> extract_key_metrics(a_report[r]),
                        initial_suggestion |-> LLMReply(report_summary(r))]]
       ELSE /\ a_pc' = [a_pc EXCEPT ![r] = "failed"]
            /\ a_resp' = [a_resp EXCEPT ![r] = [status |-> 500]]
    /\ UNCHANGED << appVars, a_url, a_report, a_arg, overlapped, stores, writes,
                    cVars, d_resp, pVars >>

\* Chat requests only read app_state and do not touch one another, so the model
\* follows one of them, made at any moment.
\* chat_with_llm, whole: it does not suspend.  get_llm_stream(...) only creates
\* the generator, with its arguments bound; nothing of its body has run.
ChatRequest(history) ==
    /\ c_pc = "idle"
    /\ c_hist' = history
    /\ c_seen' = Len(writes)
    /\ IF NotStr(llm_summary)
       THEN /\ c_pc' = "rejected"
            /\ c_resp' = [status |-> 400]
            /\ UNCHANGED c_stream
       ELSE LET user_query ==
                    IF Len(history) > 0 THEN history[Len(history)].content ELSE ""
                chat_history == SubSeq(history, 1, Len(history) - 1)
            IN  /\ c_stream' = [history |-> chat_history, query |-> user_query,
                                report_summary |-> llm_summary]
                /\ c_pc' = "created"
                /\ c_resp' = [status |-> 200]
    /\ UNCHANGED << appVars, aVars, c_call, c_upstream, c_out, d_resp, pVars >>

\* The StreamingResponse asks the generator for its first chunk: get_llm_stream
\* converts the history, calls chain.astream and awaits the model.
StreamStart ==
    /\ c_pc = "created"
    /\ c_call' = [history |-> langchain_history(c_stream.history),
                  query |-> c_stream.query,
                  report_summary |-> c_stream.report_summary]
    /\ c_pc' = "awaiting"
    /\ UNCHANGED << appVars, aVars, c_hist, c_stream, c_upstream, c_out, c_resp,
                    c_seen, d_resp, pVars >>

\* The model produces a chunk: the `async for` takes it and the body yields it.
ModelChunk(chunk) ==
    /\ c_pc = "awaiting"
    /\ Len(c_upstream) < MaxChunks
    /\ c_upstream' = Append(c_upstream, chunk)
    /\ c_out' = yield_chunk(c_out, chunk)
    /\ c_pc' = "yielded"
    /\ UNCHANGED << appVars, aVars, c_hist, c_stream, c_call, c_resp, c_seen,
                    d_resp, pVars >>

\* The StreamingResponse has sent the chunk and asks for the next one.
ClientPull ==
    /\ c_pc = "yielded"
    /\ c_pc' = "awaiting"
    /\ UNCHANGED << appVars, aVars, c_hist, c_stream, c_call, c_upstream, c_out,
                    c_resp, c_seen, d_resp, pVars >>

\* The model's stream ends, or breaks off with an exception.
StreamEnd(ok) ==
    /\ c_pc = "awaiting"
    /\ c_pc' = IF ok THEN "done" ELSE "failed"
    /\ UNCHANGED << appVars, aVars, c_hist, c_stream, c_call, c_upstream, c_out,
                    c_resp, c_seen, d_resp, pVars >>

\* The client goes away: the generator is closed where it stands.
ClientDisconnect ==
    /\ c_pc \in {"created", "awaiting", "yielded"}
    /\ c_pc' = "cancelled"
    /\ UNCHANGED << appVars, aVars, c_hist, c_stream, c_call, c_upstream, c_out,
                    c_resp, c_seen, d_resp, pVars >>

\* json.dumps(report, indent=2): the document, as the text of that report
Dumps(report) == [json |-> report, indent |-> 2]

\* download_full_report, whole: it does not suspend.
DownloadRequest ==
    /\ d_resp' = IF NotDict(full_report) THEN [status |-> 400]
                 ELSE [status |-> 200, content |-> Dumps(full_report),
                       filename |-> "lighthouse_report.json"]
    /\ d_resp' # d_resp
    /\ UNCHANGED << appVars, aVars, cVars, pVars >>

\* ------------------------------------------------- the pipeline on its own
\* The three functions of processing_service.py applied to a report in the
\* order analyze_website applies them.
ApplyExtract ==
    /\ p_pc = "extract"
    /\ p_digest' = extract_info_for_llm(p_data)
    /\ p_pc' = IF p_digest'.exc = "none" THEN "format" ELSE "metrics"
    /\ UNCHANGED << appVars, aVars, cVars, d_resp, p_data, p_url, p_text, p_metrics >>

ApplyFormat ==
    /\ p_pc = "format"
    /\ p_text' = format_for_llm(p_digest.val, p_url)
    /\ p_pc' = "metrics"
    /\ UNCHANGED << appVars, aVars, cVars, d_resp, p_data, p_url, p_digest, p_metrics >>

\* data.get on a value that is no dict raises AttributeError.
ApplyKeyMetrics ==
    /\ p_pc = "metrics"
    /\ p_metrics' = IF IsDict(p_data) THEN Ok(extract_key_metrics(p_data))
                    ELSE Raise("AttributeError")
    /\ p_pc' = "done"
    /\ UNCHANGED << appVars, aVars, cVars, d_resp, p_data, p_url, p_digest, p_text >>

InitPipeline ==
    /\ p_pc = "extract"
    /\ \/ \E c \in DOMAIN CategoryPool, places \in AuditPlaces :
              p_data = MkReport(c, places)
       \/ \E i \in DOMAIN OddReports : p_data = OddReports[i]
    /\ p_url \in Urls
    /\ p_digest = Ok(<< >>)
    /\ p_text = ""
    /\ p_metrics = Ok(<< >>)

NextExtract == ApplyExtract \/ ApplyFormat \/ ApplyKeyMetrics

InitExtract == InitApp /\ InitRequests /\ InitPipeline

SpecExtract == InitExtract /\ [][NextExtract]_vars

\* ------------------------------------------------------------ the service
\* Session state under concurrent requests: the analyses, a chat request up to
\* its call of the language model, and downloads.
Next ==
    \/ \E r \in AReq, url \in Urls : AnalyzeStart(r, url)
    \/ \E r \in AReq, i \in DOMAIN Answers("") :
           PageSpeedReturn(r, Answers(a_url[r])[i])
    \/ \E r \in AReq, ok \in BOOLEAN : LLMReturn(r, ok)
    \/ ChatRequest(<< [role |-> "user", content |-> "hi"] >>)
    \/ StreamStart
    \/ DownloadRequest

Spec == Init /\ [][Next]_vars

\* One analysis, then a chat conversation and its stream.
NextChat ==
    \/ \E url \in Urls : AnalyzeStart(1, url)
    \/ PageSpeedReturn(1, Json(ReportOf(a_url[1])))
    \/ LLMReturn(1, TRUE)
    \/ \E history \in Histories(MaxHistory) : ChatRequest(history)
    \/ StreamStart
    \/ \E chunk \in Chunks : ModelChunk(chunk)
    \/ ClientPull
    \/ \E ok \in BOOLEAN : StreamEnd(ok)
    \/ ClientDisconnect

SpecChat == Init /\ [][NextChat]_vars

\* ------------------------------------------------------------------ claims
Last(seq) == seq[Len(seq)]

\* The DigestText of request r's own report and url.
Digest(r) == format_for_llm(extract_info_for_llm(a_report[r]).val, a_url[r])

\* C1: a failed analyze leaves full_report and llm_summary as they were before
\* it started.  Stated for a failed request that is the only one to have written
\* app_state: before it started, both fields were still absent.
C1_FailedAnalyzeKeepsState ==
    \A r \in AReq :
        (a_pc[r] = "failed" /\ \A i \in DOMAIN stores : stores[i] = r)
            => (full_report = NoneDict /\ llm_summary = None)

\* C2: with no digest stored the chat request is refused with status 400 and never
\* calls the language model; with no report stored the download is refused with
\* status 400; neither changes app_state.
C2_EmptyStateIsRefused ==
    [][ /\ (c_pc = "idle" /\ c_pc' # "idle" /\ llm_summary = None)
            => /\ c_pc' = "rejected"
               /\ c_resp'.status = 400
               /\ c_call' = NoCall
               /\ appVars' = appVars
        /\ c_pc = "rejected" => (c_pc' = "rejected" /\ c_call' = NoCall)
        /\ (d_resp' # d_resp /\ full_report = NoneDict)
            => (d_resp'.status = 400 /\ appVars' = appVars) ]_vars

W_C2_Refused ==
    /\ c_pc = "rejected"
    /\ c_resp.status = 400
    /\ c_call = NoCall
    /\ d_resp.status = 400

\* C3: llm_summary is the digest of the analysis that wrote last; when that
\* analysis is also the last to have stored a report, full_report is its report;
\* and a chat request hands the language model the digest that was the last
\* written when its handler ran.
C3_LastWriterWins ==
    /\ writes # << >> => llm_summary = Digest(Last(writes))
    /\ (writes # << >> /\ Last(stores) = Last(writes))
           => full_report = a_report[Last(writes)]
    /\ c_stream # NoCall
           => /\ c_seen > 0
              /\ LET seen == Digest(writes[c_seen])
                 IN  /\ c_stream.report_summary = seen
                     /\ c_call # NoCall => c_call.report_summary = seen
    /\ c_call # NoCall => c_stream # NoCall

\* Two analyses of different urls, the second begun after the first was done, and
\* a chat after both: it is given the second digest, which is not the first.
W_C3_SecondDigestOnly ==
    /\ writes = << 1, 2 >>
    /\ a_pc[2] = "done"
    /\ ~ overlapped
    /\ a_url[1] # a_url[2]
    /\ full_report = a_report[2]
    /\ c_call # NoCall
    /\ c_seen = 2
    /\ c_call.report_summary = Digest(2)
    /\ Digest(2) # Digest(1)

\* C4: full_report and llm_summary are both absent, or llm_summary is the
\* DigestText of the report held in full_report.
C4_FieldsPaired ==
    \/ (full_report = NoneDict /\ llm_summary = None)
    \/ /\ full_report # NoneDict
       /\ extract_info_for_llm(full_report).exc = "none"
       /\ \E url \in Urls :
              llm_summary = format_for_llm(extract_info_for_llm(full_report).val, url)

\* C5: for a history of n >= 1 turns the language model is given the first n-1
\* turns, each with its role and content and in order, and the content of the
\* last turn as the query.
C5_HistoryAndQuery ==
    (c_call # NoCall /\ Len(c_hist) >= 1) =>
        LET n == Len(c_hist)
        IN  /\ Len(c_call.history) = n - 1
            /\ \A i \in 1 .. n - 1 :
                   /\ c_call.history[i].content = c_hist[i].content
                   /\ c_hist[i].role = "user" <=> c_call.history[i].type = "human"
                   /\ c_hist[i].role = "assistant" <=> c_call.history[i].type = "ai"
            /\ c_call.query = c_hist[n].content

W_C5_BothRoles ==
    /\ c_call # NoCall
    /\ Len(c_hist) = 3
    /\ c_hist[1].role = "user"
    /\ c_hist[2].role = "assistant"
    /\ Len(c_call.history) = 2

\* C6: the chunks handed to the response are the chunks the model has produced,
\* each once and in order, and none is held back while the next is awaited.
C6_ChunksForwardedInOrder ==
    /\ c_out = c_upstream
    /\ c_pc = "yielded" => Len(c_out) >= 1

W_C6_StreamDone ==
    /\ c_pc = "done"
    /\ Len(c_upstream) = MaxChunks
    /\ c_upstream[1] = ""
    /\ c_out = c_upstream

\* Whether the report has a performance category.
HasPerformanceCategory(data) ==
    /\ IsDict(data)
    /\ Has(Get(Get(data, "lighthouseResult", << >>), "categories", << >>), "performance")

NoOverallScore(digest) ==
    ~ Truthy(digest) \/ ~ Has(digest.summary, "performance_score")

C8_NeverRaisesOnMissingFields ==
    /\ IsDict(p_data) => (p_digest.exc = "none" /\ p_metrics.exc = "none")
    /\ (~ IsDict(p_data) /\ p_pc # "extract") => p_digest.exc = "TypeError"

SixMetricIds ==
    << "largest-contentful-paint", "total-blocking-time", "cumulative-layout-shift",
       "first-contentful-paint", "speed-index", "interactive" >>

\* The ids of the list, in its order, that have an audit in the report.
RECURSIVE PresentIds(_, _)
PresentIds(audits, ids) ==
    IF Len(ids) = 0 THEN << >>
    ELSE (IF \E i \in DOMAIN audits : audits[i].id = Head(ids)
          THEN << Head(ids) >> ELSE << >>) \o PresentIds(audits, Tail(ids))

\* C9: the digest's core metrics are one {title, value} entry for each of the six
\* ids that has an audit in the report, in the order of the list.
C9_SixCoreMetrics ==
    (p_pc # "extract" /\ p_digest.exc = "none" /\ Truthy(p_digest.val)) =>
        LET audits == Get(p_data.lighthouseResult, "audits", << >>)
            present == PresentIds(audits, SixMetricIds)
        IN  /\ Len(p_digest.val.metrics) = Len(present)
            /\ \A i \in DOMAIN present :
                   LET audit == AuditsGet(audits, present[i], << >>)
                   IN  p_digest.val.metrics[i] =
                           [title |-> GetStr(audit, "title"),
                            value |-> GetStr(audit, "displayValue")]

\* C10: the initial suggestion of an analysis is the model's answer to the digest
\* of that analysis' own report, whatever other analyses run meanwhile.
C10_SuggestionFromOwnDigest ==
    \A r \in AReq :
        a_pc[r] \in {"llm", "done"} =>
            LET own == Digest(r)
            IN  /\ a_arg[r] = own
                /\ a_pc[r] = "done" => a_resp[r].initial_suggestion = LLMReply(own)

\* The second analysis has written its digest and finished while the first still
\* awaits the model: the first call holds the first digest, app_state the second.
W_C10_Overlapping ==
    /\ writes = << 1, 2 >>
    /\ a_pc[1] = "llm"
    /\ a_pc[2] = "done"
    /\ overlapped
    /\ a_url[1] # a_url[2]
    /\ a_arg[1] = Digest(1)
    /\ a_arg[1] # llm_summary
    /\ a_resp[2].initial_suggestion = LLMReply(Digest(2))
====
